---- MODULE Spec2Model ----
(***************************************************************************)
(* A model of badger's validator combinators (schema.py) and of its        *)
(* path-addressed nested mapping and record flattener (util.py).           *)
(*                                                                         *)
(* Text is modelled as a sequence of one-character strings, so that the    *)
(* splitting and matching the code does on text is computed, not assumed.  *)
(***************************************************************************)
EXTENDS Integers, Sequences, FiniteSets, TLC

VARIABLES
    d,      \* the NestedDict under test (util.py)
    hist,   \* history of the __setitem__ calls made on d, oldest first
    ret,    \* what the last NestedDict operation returned or raised
    call,   \* the last validator invocation and its outcome (schema.py)
    log,    \* the warnings emitted through treelog so far
    conv    \* the last struct_as_dict call and its result

vars == <<d, hist, ret, call, log, conv>>

(***************************************************************************)
(* Bounds of the model.                                                    *)
(***************************************************************************)
MaxOps == 3        \* __setitem__ calls made on d in one run
MaxCalls == 2      \* invocations of one Deprecated validator in one run
MaxRules == 3      \* sub-validators handed to one First
MaxEntries == 1    \* entries of one file-mapping sequence
MaxFields == 3     \* fields of a structured record

(***************************************************************************)
(* util.py: NestedDict.                                                    *)
(* A dict is the sequence of its entries in insertion order; an entry      *)
(* holds either a leaf value or a nested NestedDict.                       *)
(***************************************************************************)
Sep == "/"

Leaf(k, v) == [key |-> k, leaf |-> TRUE, val |-> v, sub |-> <<>>]

Tree(k, s) == [key |-> k, leaf |-> FALSE, val |-> 0, sub |-> s]

RECURSIVE SepIndex(_, _)
SepIndex(key, i) ==
    IF i > Len(key) THEN 0
    ELSE IF key[i] = Sep THEN i
    ELSE SepIndex(key, i + 1)

\* key.partition('/'): the text before the first separator and the text after it
Partition(key) ==
    LET i == SepIndex(key, 1) IN
    IF i = 0 THEN [first |-> key, rest |-> <<>>]
    ELSE [first |-> SubSeq(key, 1, i - 1), rest |-> SubSeq(key, i + 1, Len(key))]

\* position of key k in the plain dict m, 0 when absent
DictIndex(m, k) ==
    LET S == {i \in 1..Len(m) : m[i].key = k} IN
    IF S = {} THEN 0 ELSE CHOOSE i \in S : \A j \in S : i <= j

\* dict.__contains__
DictHas(m, k) == DictIndex(m, k) # 0

\* dict.__setitem__ with a new key: the entry goes last
DictAppend(m, e) == Append(m, e)

\* a dict that moves an overwritten key to the end
DictPutMoveToEnd(m, e) ==
    Append(SelectSeq(m, LAMBDA x : x.key # e.key), e)

\* dict.__setitem__: an existing key keeps its place
DictPut(m, e) ==
    LET i == DictIndex(m, e.key) IN
    IF i = 0 THEN DictAppend(m, e) ELSE [m EXCEPT ![i] = e]

RECURSIVE SetItem(_, _, _)

\* a __setitem__ that replaces a leaf in its way by a fresh sub-tree
SetThroughLeafOverwrite(m, i, rest, value) ==
    [err |-> "none", d |-> [m EXCEPT ![i] = Tree(m[i].key, SetItem(<<>>, rest, value).d)]]

\* NestedDict.__setitem__ descending through a key that holds a leaf:
\* item assignment on the leaf value raises, nothing is stored
SetThroughLeaf(m, i, rest, value) == [err |-> "TypeError", d |-> m]

SetItem(m, key, value) ==
    LET p == Partition(key) IN
    IF p.rest # <<>>
    THEN LET m1 == IF ~DictHas(m, p.first)
                   THEN DictPut(m, Tree(p.first, <<>>))
                   ELSE m
             i  == DictIndex(m1, p.first)
         IN  IF m1[i].leaf
             THEN SetThroughLeaf(m1, i, p.rest, value)
             ELSE LET r == SetItem(m1[i].sub, p.rest, value) IN
                  [err |-> r.err, d |-> [m1 EXCEPT ![i] = Tree(p.first, r.d)]]
    ELSE [err |-> "none", d |-> DictPut(m, Leaf(key, value))]

Raised(e) == [res |-> e, val |-> 0, sub |-> <<>>]

\* a __getitem__ that looks up the first segment only
GetItemNoDescend(m, key) ==
    LET p == Partition(key)
        i == DictIndex(m, p.first)
    IN  IF i = 0 THEN Raised("KeyError")
        ELSE IF m[i].leaf
             THEN [res |-> "leaf", val |-> m[i].val, sub |-> <<>>]
             ELSE [res |-> "tree", val |-> 0, sub |-> m[i].sub]

RECURSIVE GetItem(_, _)
GetItem(m, key) ==
    LET p == Partition(key)
        i == DictIndex(m, p.first)
    IN  IF i = 0 THEN Raised("KeyError")
        ELSE IF p.rest # <<>>
        THEN IF m[i].leaf THEN Raised("TypeError")
             ELSE GetItem(m[i].sub, p.rest)
        ELSE IF m[i].leaf
             THEN [res |-> "leaf", val |-> m[i].val, sub |-> <<>>]
             ELSE [res |-> "tree", val |-> 0, sub |-> m[i].sub]

RECURSIVE Contains(_, _)
Contains(m, key) ==
    LET p == Partition(key)
        i == DictIndex(m, p.first)
    IN  IF p.rest # <<>>
        THEN IF ~DictHas(m, p.first) THEN "False"
             ELSE IF m[i].leaf THEN "TypeError"
             ELSE Contains(m[i].sub, p.rest)
        ELSE IF DictHas(m, p.first) THEN "True" ELSE "False"

\* f'{key}/{subkey}'
Join(key, subkey) == key \o <<Sep>> \o subkey

RECURSIVE Keys(_)
Keys(m) ==
    IF m = <<>> THEN <<>>
    ELSE LET e == Head(m) IN
         (IF e.leaf THEN <<e.key>>
          ELSE LET ks == Keys(e.sub) IN
               [j \in 1..Len(ks) |-> Join(e.key, ks[j])])
         \o Keys(Tail(m))

RECURSIVE Items(_)
Items(m) ==
    IF m = <<>> THEN <<>>
    ELSE LET e == Head(m) IN
         (IF e.leaf THEN << <<e.key, e.val>> >>
          ELSE LET its == Items(e.sub) IN
               [j \in 1..Len(its) |-> <<Join(e.key, its[j][1]), its[j][2]>>])
         \o Items(Tail(m))

\* the functions handed to map
Funcs == {"inc", "neg"}

Apply(f, v) == IF f = "inc" THEN v + 1 ELSE 0 - v

RECURSIVE MapLoop(_, _, _)
MapLoop(retval, its, f) ==
    IF its = <<>> THEN retval
    ELSE MapLoop(SetItem(retval, Head(its)[1], Apply(f, Head(its)[2])).d, Tail(its), f)

RECURSIVE MapFlatLoop(_, _, _)
MapFlatLoop(retval, its, f) ==
    IF its = <<>> THEN retval
    ELSE MapFlatLoop(DictPut(retval, Leaf(Head(its)[1], Apply(f, Head(its)[2]))), Tail(its), f)

\* a map that collects into a plain dict keyed by the joined paths
MapFlat(m, f) == MapFlatLoop(<<>>, Items(m), f)

Map(m, f) == MapLoop(<<>>, Items(m), f)

(***************************************************************************)
(* schema.py: the validators.                                              *)
(* A validator applied to a chunk either returns the validated value or    *)
(* raises YAMLValidationError with a message, located at a chunk.          *)
(***************************************************************************)
Ok(v) == [res |-> "ok", val |-> v, msg |-> <<>>, at |-> <<>>]

Fail(m, where) == [res |-> "YAMLValidationError", val |-> "", msg |-> m, at |-> where]

\* an exception that is no YAMLValidationError
Error(e) == [res |-> e, val |-> "", msg |-> <<>>, at |-> <<>>]

\* Deprecated.__call__: log.warning(message), then the inner validator,
\* whose outcome on the chunk is inner
DeprecatedCall(message, inner, lg) ==
    [log |-> Append(lg, message), out |-> inner]

\* Literal.validate_scalar
Literal(expected, chunk) ==
    IF expected # chunk.contents
    THEN Fail(<<"when expecting", expected>>, chunk.at)
    ELSE Ok(chunk.contents)

\* OrValidator: the second validator is tried when the first one fails
OrValidator(a, b) == IF a.res = "YAMLValidationError" THEN b ELSE a

\* Choice(*args): reduce(OrValidator, map(Literal, args))
RECURSIVE Choice(_, _)
Choice(args, chunk) ==
    IF Len(args) = 1 THEN Literal(args[1], chunk)
    ELSE OrValidator(Choice(SubSeq(args, 1, Len(args) - 1), chunk),
                     Literal(args[Len(args)], chunk))

\* Str(): any scalar
Str(chunk) ==
    IF chunk.kind = "scalar" THEN Ok(chunk.contents)
    ELSE Fail(<<"when expecting a str">>, chunk.at)

\* the chunk of the value under key k of a mapping chunk
ValueChunk(chunk, k) ==
    [kind |-> "scalar", contents |-> chunk.values[k], at |-> chunk.at \o <<k>>]

\* Map({...}): every key of the chunk is a key of the schema and its value
\* validates, and every required key is there
MapValidator(required, optional, modes, chunk) ==
    IF chunk.kind # "mapping" THEN Fail(<<"when expecting a mapping">>, chunk.at)
    ELSE IF \E k \in chunk.keys : k \notin required \cup optional
    THEN Fail(<<"unexpected key not in schema">>, chunk.at)
    ELSE IF "mode" \in chunk.keys /\ Choice(modes, ValueChunk(chunk, "mode")).res # "ok"
    THEN Choice(modes, ValueChunk(chunk, "mode"))
    ELSE IF \E k \in required : k \notin chunk.keys
    THEN Fail(<<"required key(s) not found">>, chunk.at)
    ELSE Ok("mapping")

FileMapping(glob_allowed, chunk) ==
    IF glob_allowed
    THEN OrValidator(Str(chunk),
                     MapValidator({"source"}, {"target", "mode"}, <<"simple", "glob">>, chunk))
    ELSE OrValidator(Str(chunk),
                     MapValidator({"source"}, {"target"}, <<"simple", "glob">>, chunk))

\* Seq(validator): every item validates
RECURSIVE SeqFileMapping(_, _, _)
SeqFileMapping(glob_allowed, items, i) ==
    IF i > Len(items) THEN Ok("sequence")
    ELSE LET r == FileMapping(glob_allowed, items[i]) IN
         IF r.res # "ok" THEN r ELSE SeqFileMapping(glob_allowed, items, i + 1)

\* the glob_allowed argument CASE_SCHEMA passes for each of its file sections
GlobAllowed(section) ==
    CASE section = "templates" -> TRUE
      [] section = "prefiles"  -> TRUE
      [] section = "postfiles" -> TRUE

FileSections == {"templates", "prefiles", "postfiles"}

\* CASE_SCHEMA on a document with one top-level key holding a sequence
CaseSchema(doc) ==
    IF doc.section \notin FileSections
    THEN Fail(<<"unexpected key not in schema">>, <<doc.section>>)
    ELSE SeqFileMapping(GlobAllowed(doc.section), doc.entries, 1)

\* a First that goes on after a match and keeps the last one
RECURSIVE FirstLastMatch(_, _, _, _, _)
FirstLastMatch(name, chunk, validators, i, tried) ==
    IF i > Len(validators)
    THEN LET S == {k \in 1..Len(validators) : validators[k].res = "ok"} IN
         IF S = {}
         THEN [out |-> Fail(<<"failed to find a valid schema for", name>>, chunk),
               selected |-> 0, tried |-> tried]
         ELSE LET k == CHOOSE x \in S : \A y \in S : y <= x IN
              [out |-> validators[k], selected |-> k, tried |-> tried]
    ELSE FirstLastMatch(name, chunk, validators, i + 1, Append(tried, i))

\* First.__call__ from the i-th sub-validator on; validators[i] is the outcome
\* of the i-th sub-validator on the chunk, tried lists the sub-validators called
RECURSIVE FirstCall(_, _, _, _, _)
FirstCall(name, chunk, validators, i, tried) ==
    IF i > Len(validators)
    THEN [out |-> Fail(<<"failed to find a valid schema for", name>>, chunk),
          selected |-> 0, tried |-> tried]
    ELSE IF validators[i].res = "ok"
    THEN [out |-> validators[i], selected |-> i, tried |-> Append(tried, i)]
    ELSE IF validators[i].res = "YAMLValidationError"
    THEN FirstCall(name, chunk, validators, i + 1, Append(tried, i))
    ELSE [out |-> validators[i], selected |-> 0, tried |-> Append(tried, i)]

\* Type.scalar_map
TypeNames ==
    { <<"i", "n", "t">>, <<"i", "n", "t", "e", "g", "e", "r">>,
      <<"s", "t", "r">>, <<"s", "t", "r", "i", "n", "g">>,
      <<"f", "l", "o", "a", "t">>, <<"f", "l", "o", "a", "t", "i", "n", "g">>,
      <<"d", "o", "u", "b", "l", "e">> }

ScalarMap(t) ==
    IF t[1] = "i" THEN "int" ELSE IF t[1] = "s" THEN "str" ELSE "float"

\* Type.scalar_regex.match: '^(int|...|double)$', where $ matches at the end
\* of the text and also just before a newline that ends the text
ScalarRegexMatch(t) ==
    \E n \in TypeNames : t = n \/ t = n \o <<"\n">>

\* Type.validate_scalar
TypeValidate(chunk) ==
    IF ScalarRegexMatch(chunk.contents)
    THEN IF chunk.contents \in TypeNames
         THEN Ok(ScalarMap(chunk.contents))
         ELSE Error("KeyError")
    ELSE Fail(<<"when expecting a valid type description">>, chunk.at)

(***************************************************************************)
(* util.py: struct_as_dict.                                                *)
(* A record is the sequence of its fields in declared order; reading a     *)
(* field gives the masked constant, a nested record or a raw value.        *)
(***************************************************************************)
NoValue == [ty |-> "none", n |-> 0]

StructLeaf(k, v) == [key |-> k, leaf |-> TRUE, val |-> v, sub |-> <<>>]

StructTree(k, s) == [key |-> k, leaf |-> FALSE, val |-> NoValue, sub |-> s]

\* types[k](array[k]), or array[k] itself under a list type
Convert(ty, raw) ==
    IF ty = "list" THEN [ty |-> "raw", n |-> raw] ELSE [ty |-> ty, n |-> raw]

RECURSIVE StructSkipMasked(_, _, _, _)
\* a struct_as_dict that skips a masked field and goes on
StructSkipMasked(array, types, i, retval) ==
    IF i > Len(array) THEN retval
    ELSE LET k == array[i].name IN
         IF array[i].kind = "masked"
         THEN StructSkipMasked(array, types, i + 1, retval)
         ELSE IF array[i].kind = "record"
         THEN StructSkipMasked(array, types, i + 1,
                  DictPut(retval, StructTree(k,
                      StructSkipMasked(array[i].sub, GetItem(types, k).sub, 1, <<>>))))
         ELSE StructSkipMasked(array, types, i + 1,
                  DictPut(retval, StructLeaf(k, Convert(GetItem(types, k).val, array[i].raw))))

\* struct_as_dict from the i-th field on, retval holding the fields done
RECURSIVE StructAsDict(_, _, _, _)
StructAsDict(array, types, i, retval) ==
    IF i > Len(array) THEN retval
    ELSE LET k == array[i].name IN
         IF array[i].kind = "masked"
         THEN retval
         ELSE IF array[i].kind = "record"
         THEN StructAsDict(array, types, i + 1,
                  DictPut(retval, StructTree(k,
                      StructAsDict(array[i].sub, GetItem(types, k).sub, 1, <<>>))))
         ELSE StructAsDict(array, types, i + 1,
                  DictPut(retval, StructLeaf(k, Convert(GetItem(types, k).val, array[i].raw))))

(***************************************************************************)
(* The paths and values the NestedDict operations are called with.  Paths  *)
(* are made of non-empty segments, as the data model has them.             *)
(***************************************************************************)
Paths ==
    { <<"b">>, <<"a", "/", "b">>, <<"a", "/", "c">>, <<"a", "/", "b", "/", "c">> }

Values == {1, 2}

NoRet == [op |-> "none", path |-> <<>>, arg |-> "", out |-> "", val |-> 0, seq |-> <<>>]

NoCall == [op |-> "none"]

NoConv == [op |-> "none"]

InitNested ==
    /\ d = <<>>
    /\ hist = <<>>
    /\ ret = NoRet
    /\ call = NoCall
    /\ log = <<>>
    /\ conv = NoConv

\* d[p] = v
Set(p, v) ==
    /\ Len(hist) < MaxOps
    /\ LET r == SetItem(d, p, v) IN
       /\ d' = r.d
       /\ hist' = Append(hist, [path |-> p, val |-> v, ok |-> r.err = "none"])
       /\ ret' = [NoRet EXCEPT !.op = "set", !.path = p, !.out = r.err, !.val = v]
    /\ UNCHANGED <<call, log, conv>>

\* d[p]
Get(p) ==
    /\ LET r == GetItem(d, p) IN
       ret' = [NoRet EXCEPT !.op = "get", !.path = p, !.out = r.res,
                            !.val = r.val, !.seq = r.sub]
    /\ UNCHANGED <<d, hist, call, log, conv>>

\* p in d
Has(p) ==
    /\ ret' = [NoRet EXCEPT !.op = "contains", !.path = p, !.out = Contains(d, p)]
    /\ UNCHANGED <<d, hist, call, log, conv>>

\* list(d.keys())
ListKeys ==
    /\ ret' = [NoRet EXCEPT !.op = "keys", !.out = "ok", !.seq = Keys(d)]
    /\ UNCHANGED <<d, hist, call, log, conv>>

\* d.map(f)
MapAll(f) ==
    /\ ret' = [NoRet EXCEPT !.op = "map", !.arg = f, !.out = "ok", !.seq = Map(d, f)]
    /\ UNCHANGED <<d, hist, call, log, conv>>

NextNested ==
    \/ \E p \in Paths, v \in Values : Set(p, v)
    \/ \E p \in Paths : Get(p)
    \/ \E p \in Paths : Has(p)
    \/ ListKeys
    \/ \E f \in Funcs : MapAll(f)

SpecNested == InitNested /\ [][NextNested]_vars

(***************************************************************************)
(* The validator invocations.  An invocation is drawn at the start and     *)
(* then carried out.                                                       *)
(***************************************************************************)
Min(S) == CHOOSE x \in S : \A y \in S : x <= y

SeqsUpTo(S, n) == UNION {[1..k -> S] : k \in 0..n}

Messages == {"capture-output is deprecated (now always on)"}

\* where the chunk handed to a validator sits in the document
Chunks == {<<"script">>, <<"parameters">>}

\* what a validator of the grammar can do on the chunk at c: return a value,
\* or raise YAMLValidationError at the chunk or at a chunk inside it
Outcomes(c) ==
    { Ok("v1"), Ok("v2"),
      Fail(<<"found non-matching string">>, c),
      Fail(<<"unexpected key not in schema">>, c \o <<"key">>) }

FirstNames == {"capture", "parameter"}

NoOutcome == Error("not called")

DeprecatedInputs ==
    {[op |-> "Deprecated", msg |-> m, inners |-> q, pos |-> 0, out |-> NoOutcome] :
        m \in Messages, q \in SeqsUpTo(Outcomes(<<"script">>), MaxCalls) \ {<<>>}}

FirstInputs ==
    UNION {{[op |-> "First", name |-> n, chunk |-> c, validators |-> vs, done |-> FALSE,
             out |-> NoOutcome, selected |-> 0, tried |-> <<>>] :
               n \in FirstNames, vs \in SeqsUpTo(Outcomes(c), MaxRules)} : c \in Chunks}

Upper(c) ==
    CASE c = "i" -> "I" [] c = "s" -> "S" [] c = "f" -> "F" [] c = "d" -> "D"

TypeTexts ==
    {<<>>} \cup UNION {{n, n \o <<"\n">>, n \o <<"\n", "\n">>, n \o <<"x">>, <<"x">> \o n,
                        <<"\n">> \o n, <<Upper(n[1])>> \o Tail(n)} : n \in TypeNames}

TypeInputs ==
    {[op |-> "Type", chunk |-> [kind |-> "scalar", contents |-> t, at |-> <<"types">>],
      done |-> FALSE, out |-> NoOutcome] : t \in TypeTexts}

EntryKeys == {"source", "target", "mode", "extra"}

ModeTexts == {"simple", "glob", "other"}

\* the items of a file section: a bare string, or a mapping
Entries(section) ==
    {[kind |-> "scalar", contents |-> "file", keys |-> {},
      values |-> [k \in EntryKeys |-> ""], at |-> <<section>>]}
    \cup
    UNION {{[kind |-> "mapping", contents |-> "", keys |-> ks,
             values |-> [k \in EntryKeys |-> IF k = "mode" THEN mt ELSE "file"],
             at |-> <<section>>] :
               mt \in IF "mode" \in ks THEN ModeTexts ELSE {""}} :
                  ks \in SUBSET EntryKeys}

CaseInputs ==
    UNION {{[op |-> "case", doc |-> [section |-> sec, entries |-> es],
             done |-> FALSE, out |-> NoOutcome] :
               es \in SeqsUpTo(Entries(sec), MaxEntries) \ {<<>>}} :
                  sec \in FileSections \cup {"bogus"}}

InitSchema ==
    /\ d = <<>>
    /\ hist = <<>>
    /\ ret = NoRet
    /\ log = <<>>
    /\ conv = NoConv
    /\ \/ call \in DeprecatedInputs
       \/ call \in FirstInputs
       \/ call \in TypeInputs
       \/ call \in CaseInputs

\* Deprecated(msg, inner)(chunk), once more
CallDeprecated ==
    /\ call.op = "Deprecated"
    /\ call.pos < Len(call.inners)
    /\ LET r == DeprecatedCall(call.msg, call.inners[call.pos + 1], log) IN
       /\ log' = r.log
       /\ call' = [call EXCEPT !.pos = @ + 1, !.out = r.out]
    /\ UNCHANGED <<d, hist, ret, conv>>

\* First(name, *validators)(chunk)
CallFirst ==
    /\ call.op = "First"
    /\ ~call.done
    /\ LET r == FirstCall(call.name, call.chunk, call.validators, 1, <<>>) IN
       call' = [call EXCEPT !.done = TRUE, !.out = r.out,
                            !.selected = r.selected, !.tried = r.tried]
    /\ UNCHANGED <<d, hist, ret, log, conv>>

\* Type()(chunk)
CallType ==
    /\ call.op = "Type"
    /\ ~call.done
    /\ call' = [call EXCEPT !.done = TRUE, !.out = TypeValidate(call.chunk)]
    /\ UNCHANGED <<d, hist, ret, log, conv>>

\* CASE_SCHEMA(document)
CallCase ==
    /\ call.op = "case"
    /\ ~call.done
    /\ call' = [call EXCEPT !.done = TRUE, !.out = CaseSchema(call.doc)]
    /\ UNCHANGED <<d, hist, ret, log, conv>>

NextSchema ==
    \/ CallDeprecated
    \/ CallFirst
    \/ CallType
    \/ CallCase

SpecSchema == InitSchema /\ [][NextSchema]_vars

(***************************************************************************)
(* The struct_as_dict calls.  A field is masked, a raw value with the type *)
(* its template names, or a nested record.                                 *)
(***************************************************************************)
FieldNames == <<"x", "y", "z", "w", "v", "u">>

SubNames == <<"p", "q", "r">>

Masked == [kind |-> "masked", raw |-> 0, ty |-> "int", sub |-> <<>>]

Scalar(raw, ty) == [kind |-> "scalar", raw |-> raw, ty |-> ty, sub |-> <<>>]

Record(sub) == [kind |-> "record", raw |-> 0, ty |-> "int", sub |-> sub]

SubRecords ==
    { <<Scalar(1, "int"), Scalar(2, "float")>>,
      <<Scalar(1, "float"), Masked, Scalar(2, "int")>>,
      <<Masked, Masked>> }

FieldOptions ==
    {Masked, Scalar(1, "int"), Scalar(2, "float"), Scalar(1, "list")}
    \cup {Record(sub) : sub \in SubRecords}

\* the record the fields make, as struct_as_dict reads it
RECURSIVE ArrayOf(_, _)
ArrayOf(fields, names) ==
    [i \in 1..Len(fields) |->
        [name |-> <<names[i]>>, kind |-> fields[i].kind, raw |-> fields[i].raw,
         sub |-> ArrayOf(fields[i].sub, SubNames)]]

\* the template of the same shape, a NestedDict
RECURSIVE TypesOf(_, _)
TypesOf(fields, names) ==
    [i \in 1..Len(fields) |->
        IF fields[i].kind = "record"
        THEN Tree(<<names[i]>>, TypesOf(fields[i].sub, SubNames))
        ELSE Leaf(<<names[i]>>, fields[i].ty)]

StructInputs ==
    {[op |-> "struct_as_dict", fields |-> fs, done |-> FALSE, out |-> <<>>] :
        fs \in SeqsUpTo(FieldOptions, MaxFields) \ {<<>>}}

InitStruct ==
    /\ d = <<>>
    /\ hist = <<>>
    /\ ret = NoRet
    /\ call = NoCall
    /\ log = <<>>
    /\ conv \in StructInputs

\* struct_as_dict(array, types)
CallStruct ==
    /\ conv.op = "struct_as_dict"
    /\ ~conv.done
    /\ conv' = [conv EXCEPT !.done = TRUE,
                   !.out = StructAsDict(ArrayOf(conv.fields, FieldNames),
                                        TypesOf(conv.fields, FieldNames), 1, <<>>)]
    /\ UNCHANGED <<d, hist, ret, call, log>>

NextStruct == CallStruct

SpecStruct == InitStruct /\ [][NextStruct]_vars

(***************************************************************************)
(* Properties of the validators.                                           *)
(***************************************************************************)
IsDeprecatedStep == call'.op = "Deprecated" /\ call'.pos = call.pos + 1

\* C1: Deprecated(msg, R)(x) has the outcome of R(x), and the warning is
\* emitted once on an invocation where R succeeds and not at all where R fails.
C1_WarnOnlyOnSuccess ==
    [][IsDeprecatedStep =>
         LET inner == call.inners[call'.pos] IN
         /\ call'.out = inner
         /\ inner.res = "ok" => log' = Append(log, call.msg)
         /\ inner.res # "ok" => log' = log]_vars

FirstOk == {i \in 1..Len(call.validators) : call.validators[i].res = "ok"}

\* C2: First returns the result of the lowest-index sub-validator that
\* succeeds, records it as the selected one and tries none after it; when none
\* succeeds the one failure is "failed to find a valid schema for <name>" at x.
C2_First ==
    (call.op = "First" /\ call.done) =>
        IF FirstOk # {}
        THEN /\ call.out = call.validators[Min(FirstOk)]
             /\ call.selected = Min(FirstOk)
             /\ call.tried = [i \in 1..Min(FirstOk) |-> i]
        ELSE /\ call.out.res = "YAMLValidationError"
             /\ call.out.msg = <<"failed to find a valid schema for", call.name>>
             /\ call.out.at = call.chunk
             /\ call.tried = [i \in 1..Len(call.validators) |-> i]

C2_Witness ==
    /\ call.op = "First"
    /\ call.done
    /\ Len(call.validators) = 3
    /\ call.validators[1].res # "ok"
    /\ call.validators[2] = Ok("v1")
    /\ call.validators[3] = Ok("v2")
    /\ call.selected = 2
    /\ call.out.val = "v1"

HasMode(doc) == \E i \in 1..Len(doc.entries) :
    doc.entries[i].kind = "mapping" /\ "mode" \in doc.entries[i].keys

HasUnknownKey(doc) ==
    \/ doc.section \notin FileSections
    \/ \E i \in 1..Len(doc.entries) :
          doc.entries[i].kind = "mapping" /\ "extra" \in doc.entries[i].keys

\* C8: an entry may carry mode only under templates: a document with a mode
\* key under prefiles or postfiles fails validation, as does a document with
\* a key the grammar does not declare at that level.
C8_ModeOnlyUnderTemplates ==
    (call.op = "case" /\ call.done) =>
        /\ (call.doc.section \in {"prefiles", "postfiles"} /\ HasMode(call.doc))
              => call.out.res = "YAMLValidationError"
        /\ HasUnknownKey(call.doc) => call.out.res = "YAMLValidationError"

\* C9: Type succeeds iff the text is one of the seven names, with the native
\* type of that name, and rejects any other text with a validation failure
\* at the token, never with another error.
C9_TypeExact ==
    (call.op = "Type" /\ call.done) =>
        IF call.chunk.contents \in TypeNames
        THEN call.out = Ok(ScalarMap(call.chunk.contents))
        ELSE /\ call.out.res = "YAMLValidationError"
             /\ call.out.at = call.chunk.at

(***************************************************************************)
(* Properties of struct_as_dict.                                           *)
(***************************************************************************)
\* the number of fields before the first masked one
PrefixLen(fields) ==
    LET S == {i \in 1..Len(fields) : fields[i].kind = "masked"} IN
    IF S = {} THEN Len(fields) ELSE Min(S) - 1

RECURSIVE PrefixConverted(_, _, _)
PrefixConverted(fields, names, out) ==
    /\ Len(out) = PrefixLen(fields)
    /\ \A i \in 1..Len(out) :
          /\ out[i].key = <<names[i]>>
          /\ IF fields[i].kind = "record"
             THEN ~out[i].leaf /\ PrefixConverted(fields[i].sub, SubNames, out[i].sub)
             ELSE /\ out[i].leaf
                  /\ out[i].val = IF fields[i].ty = "list"
                                  THEN [ty |-> "raw", n |-> fields[i].raw]
                                  ELSE [ty |-> fields[i].ty, n |-> fields[i].raw]

\* C7: struct_as_dict returns exactly the fields before the first masked
\* one, nested records among them converted the same way with their
\* sub-template.
C7_PopulatedPrefix ==
    (conv.op = "struct_as_dict" /\ conv.done) =>
        PrefixConverted(conv.fields, FieldNames, conv.out)

C7_Witness ==
    /\ conv.op = "struct_as_dict"
    /\ conv.done
    /\ Len(conv.fields) = 3
    /\ conv.fields[1].kind = "record"
    /\ Len(conv.fields[1].sub) = 3
    /\ conv.fields[2].kind = "masked"
    /\ conv.fields[3].kind = "scalar"
    /\ Len(conv.out) = 1
    /\ Len(conv.out[1].sub) = 1

(***************************************************************************)
(* Properties of NestedDict, stated over the history of the sets made.     *)
(***************************************************************************)
\* r addresses p itself or a node above p
IsNodePrefix(r, p) ==
    \/ r = p
    \/ /\ Len(r) < Len(p)
       /\ SubSeq(p, 1, Len(r) + 1) = r \o <<Sep>>

ProperPrefix(r, p) == IsNodePrefix(r, p) /\ r # p

\* p and the paths of the nodes above it
NodePrefixes(p) ==
    {SubSeq(p, 1, n) : n \in {k \in 1..Len(p) : k = Len(p) \/ p[k + 1] = Sep}}

HistIdx == 1..Len(hist)

OkIdx == {i \in HistIdx : hist[i].ok}

\* the paths stored as leaves and not since replaced by a set on a node above them
LivePaths ==
    {hist[i].path : i \in {k \in OkIdx :
        ~\E j \in OkIdx : j > k /\ ProperPrefix(hist[j].path, hist[k].path)}}

\* the first successful set that created the node r
FirstTime(r) == Min({i \in OkIdx : IsNodePrefix(r, hist[i].path)})

\* the first successful set of exactly the path p
FirstSet(p) == Min({i \in OkIdx : hist[i].path = p})

\* the node where p leaves the way to q
Branch(p, q) ==
    LET S == {r \in NodePrefixes(p) : ~IsNodePrefix(r, q)} IN
    CHOOSE r \in S : \A t \in S : Len(r) <= Len(t)

DistinctPaths ==
    \A i, j \in HistIdx : i # j => hist[i].path # hist[j].path

PrefixFree ==
    \A i, j \in HistIdx : i # j => ~IsNodePrefix(hist[i].path, hist[j].path)

NoDuplicates(s) == \A i, j \in 1..Len(s) : i # j => s[i] # s[j]

Range(s) == {s[i] : i \in 1..Len(s)}

AllOk == \A i \in HistIdx : hist[i].ok

\* C3 as stated: after sets with pairwise distinct paths (none of which
\* raised), get(path_i) returns value_i for every i.
C3_RoundTripDistinct ==
    (ret.op = "get" /\ DistinctPaths /\ AllOk) =>
        \A i \in HistIdx : hist[i].path = ret.path =>
            ret.out = "leaf" /\ ret.val = hist[i].val

\* C3 amended: after sets with pairwise distinct paths none of which addresses a
\* node above another, every set succeeded and get(path_i) returns value_i.
C3_RoundTripPrefixFree ==
    PrefixFree =>
        /\ \A i \in HistIdx : hist[i].ok
        /\ ret.op = "get" =>
              \A i \in HistIdx : hist[i].path = ret.path =>
                  ret.out = "leaf" /\ ret.val = hist[i].val

C3_Witness ==
    /\ ret.op = "get"
    /\ PrefixFree
    /\ Len(hist) = 3
    /\ ret.path = <<"a", "/", "c">>
    /\ hist[1].path = ret.path
    /\ ret.out = "leaf"
    /\ ret.val = 2

\* C4 as stated: keys() yields the leaf paths, each once, in the order in which
\* each path was first set.
C4_KeysFirstSetOrder ==
    ret.op = "keys" =>
        /\ Range(ret.seq) = LivePaths
        /\ NoDuplicates(ret.seq)
        /\ \A i, j \in 1..Len(ret.seq) :
              i < j => FirstSet(ret.seq[i]) < FirstSet(ret.seq[j])

\* C4 amended: keys() yields the paths that hold leaves, each once, in tree
\* order: of two paths, the one whose branch below their common node was
\* created first comes first; setting an existing leaf again moves nothing.
C4_KeysTreeOrder ==
    ret.op = "keys" =>
        /\ Range(ret.seq) = LivePaths
        /\ NoDuplicates(ret.seq)
        /\ \A i, j \in 1..Len(ret.seq) :
              i < j => FirstTime(Branch(ret.seq[i], ret.seq[j]))
                         < FirstTime(Branch(ret.seq[j], ret.seq[i]))

C4_Witness ==
    /\ ret.op = "keys"
    /\ Len(hist) = 3
    /\ hist[1].path = <<"b">>
    /\ hist[2].path = <<"a", "/", "c">>
    /\ hist[3].path = <<"b">>
    /\ ret.seq = << <<"b">>, <<"a", "/", "c">> >>

\* C5 as stated: contains(p) is true iff get(p) would succeed, and is false,
\* without raising, in every other case.
C5_ContainsTotal ==
    ret.op = "contains" =>
        /\ ret.out \in {"True", "False"}
        /\ ret.out = "True" <=> GetItem(d, ret.path).res \in {"leaf", "tree"}

\* some node above p holds a leaf value
ThroughLeaf(m, p) ==
    \E r \in NodePrefixes(p) : r # p /\ GetItem(m, r).res = "leaf"

RECURSIVE UniqueKeys(_)
UniqueKeys(m) ==
    /\ \A i, j \in 1..Len(m) : i # j => m[i].key # m[j].key
    /\ \A i \in 1..Len(m) : m[i].leaf \/ UniqueKeys(m[i].sub)

\* no key is both a leaf and a sub-tree
NoLeafAndTree ==
    /\ UniqueKeys(d)
    /\ \A p, q \in Range(Keys(d)) : ~ProperPrefix(p, q)

IsSetStep == Len(hist') = Len(hist) + 1

\* C6: a set whose path descends through a key holding a leaf raises and
\* leaves the mapping unchanged, and no key is ever both a leaf and a sub-tree.
C6_Collision ==
    /\ []NoLeafAndTree
    /\ [][(IsSetStep /\ ThroughLeaf(d, ret'.path)) =>
             /\ ret'.out = "TypeError"
             /\ d' = d
             /\ Keys(d') = Keys(d)
             /\ \A p \in Paths : GetItem(d', p) = GetItem(d, p)]_vars

C6_Witness ==
    /\ ret.op = "set"
    /\ ret.path = <<"a", "/", "b", "/", "c">>
    /\ ret.val = 2
    /\ ret.out = "TypeError"
    /\ Len(hist) = 2
    /\ hist[1] = [path |-> <<"a", "/", "b">>, val |-> 1, ok |-> TRUE]
    /\ GetItem(d, <<"a", "/", "b">>).val = 1

\* the dict of the same shape with f applied to every leaf
RECURSIVE MapShape(_, _)
MapShape(m, f) ==
    [i \in 1..Len(m) |->
        IF m[i].leaf THEN Leaf(m[i].key, Apply(f, m[i].val))
        ELSE Tree(m[i].key, MapShape(m[i].sub, f))]

MapResultRight ==
    ret.op = "map" =>
        /\ ret.seq = MapShape(d, ret.arg)
        /\ Keys(ret.seq) = Keys(d)
        /\ \A p \in Range(Keys(d)) :
              /\ GetItem(ret.seq, p).res = "leaf"
              /\ GetItem(ret.seq, p).val = Apply(ret.arg, GetItem(d, p).val)

\* C10: d.map(f) has the leaf paths of d in the same order and the same
\* sub-trees, holds f(d.get(p)) at every leaf path p, and leaves d unchanged.
C10_Map ==
    /\ []MapResultRight
    /\ [][ret'.op = "map" => d' = d]_vars

C10_Witness ==
    /\ ret.op = "map"
    /\ ret.arg = "inc"
    /\ Keys(d) = << <<"a", "/", "b", "/", "c">>, <<"a", "/", "c">>, <<"b">> >>
    /\ GetItem(ret.seq, <<"a", "/", "b", "/", "c">>).val = 3

====
